---- MODULE Spec2Model ----
(***************************************************************************)
(* Model of gimbal_lib.py (GimbalController): a two-axis gimbal driven     *)
(* through the line-oriented Galil command protocol.                       *)
(*                                                                         *)
(* Degrees (Python floats) are modelled as integers in units of 1/Res of a *)
(* count, i.e. 1 degree = CNT_PER_DEG * Res units, with exact arithmetic.  *)
(* Every public call is one action; the commands it sends are recorded in  *)
(* tr, and the commands that fail are chosen by the environment as the set *)
(* F of positions (1st, 2nd, ... call of _cmd within the handler).         *)
(***************************************************************************)
EXTENDS Integers, Sequences, FiniteSets, TLC

\* ------------------------------------------------------------ bounds
MaxCalls  == 2      \* public calls per session after construction
MaxFaults == 1      \* failing protocol commands per session
MaxPolls  == 1      \* iterations a polling loop gets before its timeout
Res       == 10     \* modelled float resolution: units per count

\* ------------------------------------------------- program constants
AZ_MIN == -90
AZ_MAX == 90
EL_MIN == -90
EL_MAX == 90
MIN_PR_COUNTS == 10
MIN_PA_DELTA  == 6
CNT_PER_DEG_AZ == 10000
CNT_PER_DEG_EL == 10000
TOL_COUNTS == 30

\* one degree / one count, in units
Deg(d) == d * CNT_PER_DEG_AZ * Res
Cnt(c) == c * Res

Abs(n) == IF n < 0 THEN -n ELSE n

\* Python round(): nearest integer, ties to the even one; n/d with d > 0
RoundHalfEven(n, d) ==
  LET q == n \div d
      r == n % d
  IN  IF 2 * r < d THEN q
      ELSE IF 2 * r > d THEN q + 1
      ELSE IF q % 2 = 0 THEN q ELSE q + 1

\* int(round(deg * cnt_per_deg)) for a value in units
ToCounts(u) == RoundHalfEven(u, Res)

\* counts / cnt_per_deg, in units
FromCounts(c) == c * Res

_clip(v, lo, hi) ==
  LET mn == IF hi < v THEN hi ELSE v
  IN  IF lo > mn THEN lo ELSE mn

ClipAz(u) == _clip(u, Deg(AZ_MIN), Deg(AZ_MAX))
ClipEl(u) == _clip(u, Deg(EL_MIN), Deg(EL_MAX))

VARIABLES
  phase,      \* "new" | "returned" (a call just ended) | "ready" (between
              \* calls) | "failed" (the constructor raised) | "closed"
  sim,        \* self.sim
  streaming,  \* self.streaming
  curr_az,    \* self.curr_az (units)
  curr_el,    \* self.curr_el (units)
  curr_pos,   \* self.curr_pos
  handle,     \* "none" | "open" | "closed": the gclib session
  saved,      \* the persisted position file (STATE_FILE)
  ctl,        \* the controller: PT flag, position, pending move, commanded position
  tr,         \* I/O of the last call: protocol commands, GOpen, GClose
  call,       \* the last call: operation, inputs, state before it
  ret,        \* "ok" | "raise": how the last call ended
  hist,       \* history of the session (what was sent, what failed)
  ncalls,     \* public calls made
  faults      \* commands failed so far

vars == <<phase, sim, streaming, curr_az, curr_el, curr_pos, handle, saved, ctl,
          tr, call, ret, hist, ncalls, faults>>

\* ------------------------------------------------------ the controller
Ev(c, x, y, ok) == [c |-> c, x |-> x, y |-> y, ok |-> ok]

Ctl0 == [pt |-> FALSE, pos_x |-> 0, pos_y |-> 0, pend |-> "none",
         pend_x |-> 0, pend_y |-> 0, cmd_x |-> 0, cmd_y |-> 0]

\* Effect of an accepted command on the controller.  PT 1,1 / PT 0,0 switch
\* position tracking; PA sets the absolute target (followed at once while
\* position tracking is on, started by BG otherwise); PR sets a relative
\* target started by BG; DP defines the position.
ApplyCtrl(c0, c, x, y) ==
  CASE c = "PT 1,1" -> [c0 EXCEPT !.pt = TRUE]
    [] c = "PT 0,0" -> [c0 EXCEPT !.pt = FALSE]
    [] c = "PA" -> IF c0.pt
                   THEN [c0 EXCEPT !.cmd_x = x, !.cmd_y = y, !.pos_x = x, !.pos_y = y,
                                   !.pend = "none"]
                   ELSE [c0 EXCEPT !.cmd_x = x, !.cmd_y = y, !.pend = "PA",
                                   !.pend_x = x, !.pend_y = y]
    [] c = "PR" -> [c0 EXCEPT !.cmd_x = @ + x, !.cmd_y = @ + y, !.pend = "PR",
                              !.pend_x = x, !.pend_y = y]
    [] c = "BG XY" -> IF c0.pend = "PA"
                      THEN [c0 EXCEPT !.pos_x = c0.pend_x, !.pos_y = c0.pend_y,
                                      !.pend = "none"]
                      ELSE IF c0.pend = "PR"
                      THEN [c0 EXCEPT !.pos_x = @ + c0.pend_x, !.pos_y = @ + c0.pend_y,
                                      !.pend = "none"]
                      ELSE c0
    [] c = "DP 0,0" -> [c0 EXCEPT !.pos_x = 0, !.pos_y = 0, !.cmd_x = 0, !.cmd_y = 0]
    [] c = "DP X=0" -> [c0 EXCEPT !.pos_x = 0, !.cmd_x = 0]
    [] c = "DP Y=0" -> [c0 EXCEPT !.pos_y = 0, !.cmd_y = 0]
    [] OTHER -> c0

\* ------------------------------------------------------ low-level I/O
\* The handler's working state: the object's fields, the controller, the
\* I/O so far, the pending exception (exc) and the environment's choices
\* (F: the _cmd calls that fail; readyAt: the poll that first sees success).
Hist0 == [anyFail |-> FALSE, bgInPT |-> FALSE, enterFailed |-> FALSE,
          ptAfterFail |-> FALSE, lastAbs |-> <<>>, releases |-> 0,
          afterRelease |-> FALSE]

\* _cmd: send one command; on failure fetch TC (its own failure is ignored)
\* and re-raise.  A handler in which an exception is pending sends nothing
\* more.  The reply to TP is the controller's position ctl.pos_x, ctl.pos_y;
\* a reply that does not parse raises like a failed command.
_cmd(m, c, x, y) ==
  IF m.exc THEN m
  ELSE
    LET k  == m.n + 1
        ok == k \notin m.F
        h1 == [m.hist EXCEPT
                 !.anyFail = @ \/ ~ok,
                 !.bgInPT = @ \/ (c = "BG XY" /\ m.ctl.pt),
                 !.ptAfterFail = @ \/ (c = "PT 1,1" /\ m.hist.enterFailed),
                 !.afterRelease = @ \/ (m.handle = "closed")]
    IN  IF ok
        THEN [m EXCEPT !.n = k, !.tr = Append(@, Ev(c, x, y, TRUE)),
                       !.ctl = ApplyCtrl(@, c, x, y), !.hist = h1]
        ELSE [m EXCEPT !.n = k,
                       !.tr = @ \o <<Ev(c, x, y, FALSE), Ev("TC", 0, 0, TRUE)>>,
                       !.hist = h1, !.exc = TRUE]

\* except Exception: pass
Catch(m) == [m EXCEPT !.exc = FALSE]

\* -------------------------------------------------------- PT helpers
_enter_pt(m) ==
  IF m.exc THEN m
  ELSE
    LET b == _cmd(_cmd(m, "ST", 0, 0), "PT 1,1", 0, 0)
    IN  IF b.exc
        THEN [b EXCEPT !.exc = FALSE, !.streaming = FALSE, !.hist.enterFailed = TRUE]
        ELSE b

\* mutant: the exit stops the profiler but leaves position tracking on
_exit_pt_noPT0(m) ==
  IF m.exc THEN m ELSE Catch(_cmd(m, "ST", 0, 0))

_exit_pt(m) ==
  IF m.exc THEN m
  ELSE Catch(_cmd(_cmd(m, "ST", 0, 0), "PT 0,0", 0, 0))

\* ------------------------------------------------------ waits / health
\* mutant: a failing query ends the wait with its exception
RECURSIVE InposLoop_raise(_, _)
InposLoop_raise(m, i) ==
  IF i > MaxPolls THEN [m EXCEPT !.waitRes = "false"]
  ELSE
    LET a == _cmd(m, "MG _TNX,_TNY", 0, 0)
    IN  IF a.exc THEN a
        ELSE IF i >= m.readyAt THEN [a EXCEPT !.waitRes = "true"]
        ELSE InposLoop_raise(a, i + 1)

\* One iteration per poll; the timeout is MaxPolls polls.  The environment
\* reports in position from poll readyAt on.
RECURSIVE InposLoop(_, _)
InposLoop(m, i) ==
  IF i > MaxPolls THEN [m EXCEPT !.waitRes = "false"]
  ELSE
    LET a == _cmd(m, "MG _TNX,_TNY", 0, 0)
    IN  IF a.exc THEN InposLoop(Catch(a), i + 1)
        ELSE IF i >= m.readyAt THEN [a EXCEPT !.waitRes = "true"]
        ELSE InposLoop(a, i + 1)

_wait_inpos(m) == IF m.exc THEN m ELSE InposLoop(m, 1)

RECURSIVE SettleLoop(_, _, _, _)
SettleLoop(m, tgt_x, tgt_y, i) ==
  IF i > MaxPolls THEN [m EXCEPT !.waitRes = "false"]
  ELSE
    LET a == _cmd(_cmd(m, "TP X", 0, 0), "TP Y", 0, 0)
    IN  IF a.exc THEN SettleLoop(Catch(a), tgt_x, tgt_y, i + 1)
        ELSE IF /\ i >= m.readyAt
                /\ Abs(a.ctl.pos_x - tgt_x) <= TOL_COUNTS
                /\ Abs(a.ctl.pos_y - tgt_y) <= TOL_COUNTS
        THEN [a EXCEPT !.waitRes = "true"]
        ELSE SettleLoop(a, tgt_x, tgt_y, i + 1)

_wait_settle_counts(m, tgt_x, tgt_y) ==
  IF m.exc THEN m ELSE SettleLoop(m, tgt_x, tgt_y, 1)

\* ------------------------------------------------------ motion helpers
\* mutant: no deadband, every non-zero delta moves
Moves_nonzero(dcnt) == dcnt # 0

\* abs(dcnt) >= MIN_PR_COUNTS
Moves(dcnt) == Abs(dcnt) >= MIN_PR_COUNTS

\* mutant: streaming is restored before the run command
_send_relative_counts_early(m, dcnt_x, dcnt_y, wait) ==
  IF m.exc THEN m
  ELSE
    LET mv_x == Moves(dcnt_x)
        mv_y == Moves(dcnt_y)
        pr_x == IF mv_x THEN dcnt_x ELSE 0
        pr_y == IF mv_y THEN dcnt_y ELSE 0
        was_pt == m.streaming
        a == IF was_pt THEN _exit_pt(m) ELSE m
        b == _cmd(a, "PR", pr_x, pr_y)
        c == IF was_pt THEN _enter_pt(b) ELSE b
        d == _cmd(c, "BG XY", 0, 0)
        e == IF wait THEN _wait_inpos(d) ELSE d
    IN  IF ~(mv_x \/ mv_y) THEN [m EXCEPT !.rv = FALSE]
        ELSE [e EXCEPT !.rv = TRUE]

\* rv is the helper's return value
_send_relative_counts(m, dcnt_x, dcnt_y, wait) ==
  IF m.exc THEN m
  ELSE
    LET mv_x == Moves(dcnt_x)
        mv_y == Moves(dcnt_y)
        pr_x == IF mv_x THEN dcnt_x ELSE 0
        pr_y == IF mv_y THEN dcnt_y ELSE 0
        was_pt == m.streaming
        a == IF was_pt THEN _exit_pt(m) ELSE m
        b == _cmd(_cmd(a, "PR", pr_x, pr_y), "BG XY", 0, 0)
        c == IF wait THEN _wait_inpos(b) ELSE b
        d == IF was_pt THEN _enter_pt(c) ELSE c
    IN  IF ~(mv_x \/ mv_y) THEN [m EXCEPT !.rv = FALSE]
        ELSE [d EXCEPT !.rv = TRUE]

\* mutant: only an unchanged target is dropped
Negligible_same(tgt, c) == tgt = c

\* abs(tgt - c) < MIN_PA_DELTA
Negligible(tgt, c) == Abs(tgt - c) < MIN_PA_DELTA

_send_absolute_counts(m, tgt_x, tgt_y, wait) ==
  IF m.exc THEN m
  ELSE IF m.streaming
  THEN
    LET q  == _cmd(_cmd(m, "TP X", 0, 0), "TP Y", 0, 0)
        a  == Catch(q)
        known == ~q.exc
        pa == _cmd(a, "PA", tgt_x, tgt_y)
        w  == IF wait THEN _wait_settle_counts(pa, tgt_x, tgt_y) ELSE pa
    IN  IF /\ known
           /\ Negligible(tgt_x, a.ctl.pos_x)
           /\ Negligible(tgt_y, a.ctl.pos_y)
        THEN [a EXCEPT !.rv = FALSE]
        ELSE [w EXCEPT !.rv = TRUE]
  ELSE
    LET b == _cmd(_cmd(m, "PA", tgt_x, tgt_y), "BG XY", 0, 0)
        c == IF wait THEN _wait_inpos(b) ELSE b
    IN  [c EXCEPT !.rv = TRUE]

\* ------------------------------------------------- public movement API
\* mutant: the persisted vector is updated, the tracked angles are not
SetPos_stale(m, az, el) == [m EXCEPT !.curr_pos = <<az, el, 0>>]

\* mutant: the position is taken over only when the wait did not time out
SetPos_confirmed(m, az, el) ==
  IF m.waitRes = "false" THEN m
  ELSE [m EXCEPT !.curr_az = az, !.curr_el = el, !.curr_pos = <<az, el, 0>>]

\* self.curr_az, self.curr_el = az, el; self.curr_pos = [az, el, 0.0]
SetPos(m, az, el) ==
  [m EXCEPT !.curr_az = az, !.curr_el = el, !.curr_pos = <<az, el, 0>>]

\* mutant: the position is taken over before the outcome of the send is known
move_absolute_eager(m, az_deg, el_sky_deg, wait) ==
  LET target_az == ClipAz(az_deg)
      target_el == ClipEl(el_sky_deg - Deg(90))
      curr_cnt_x == ToCounts(m.curr_az)
      curr_cnt_y == ToCounts(m.curr_el)
      tgt_cnt_x == ToCounts(target_az)
      tgt_cnt_y == ToCounts(target_el)
      was_pt == m.streaming
      a == IF was_pt THEN _exit_pt(m) ELSE m
      b == _send_absolute_counts(a, tgt_cnt_x, tgt_cnt_y, wait)
      c == IF was_pt THEN _enter_pt(b) ELSE b
  IN  IF m.sim THEN SetPos(m, target_az, target_el)
      ELSE IF tgt_cnt_x = curr_cnt_x /\ tgt_cnt_y = curr_cnt_y THEN m
      ELSE SetPos(c, target_az, target_el)

move_absolute(m, az_deg, el_sky_deg, wait) ==
  LET target_az == ClipAz(az_deg)
      target_el == ClipEl(el_sky_deg - Deg(90))
      curr_cnt_x == ToCounts(m.curr_az)
      curr_cnt_y == ToCounts(m.curr_el)
      tgt_cnt_x == ToCounts(target_az)
      tgt_cnt_y == ToCounts(target_el)
      was_pt == m.streaming
      a == IF was_pt THEN _exit_pt(m) ELSE m
      b == _send_absolute_counts(a, tgt_cnt_x, tgt_cnt_y, wait)
      c == IF was_pt THEN _enter_pt(b) ELSE b
  IN  IF m.sim THEN SetPos(m, target_az, target_el)
      ELSE IF tgt_cnt_x = curr_cnt_x /\ tgt_cnt_y = curr_cnt_y THEN m
      ELSE IF c.exc THEN c
      ELSE SetPos(c, target_az, target_el)

\* mutant: simulation applies the deadband of the hardware path
move_relative_deadband(m, d_az, d_el_sky, wait) ==
  LET new_az == ClipAz(m.curr_az + d_az)
      new_el == ClipEl(m.curr_el + d_el_sky)
      dcnt_x == ToCounts(new_az - m.curr_az)
      dcnt_y == ToCounts(new_el - m.curr_el)
      s == _send_relative_counts(m, dcnt_x, dcnt_y, wait)
  IN  IF m.sim
      THEN IF Moves(dcnt_x) \/ Moves(dcnt_y) THEN SetPos(m, new_az, new_el) ELSE m
      ELSE IF s.exc THEN s
      ELSE IF s.rv THEN SetPos(s, new_az, new_el)
      ELSE s

move_relative(m, d_az, d_el_sky, wait) ==
  LET new_az == ClipAz(m.curr_az + d_az)
      new_el == ClipEl(m.curr_el + d_el_sky)
      dcnt_x == ToCounts(new_az - m.curr_az)
      dcnt_y == ToCounts(new_el - m.curr_el)
      s == _send_relative_counts(m, dcnt_x, dcnt_y, wait)
  IN  IF m.sim THEN SetPos(m, new_az, new_el)
      ELSE IF s.exc THEN s
      ELSE IF s.rv THEN SetPos(s, new_az, new_el)
      ELSE s

degSteer(m, az_gim, el_gim, absolute, wait) ==
  LET target_az == ClipAz(az_gim)
      target_el == ClipEl(el_gim)
      \* absolute branch
      curr_cnt_x == ToCounts(m.curr_az)
      curr_cnt_y == ToCounts(m.curr_el)
      tgt_cnt_x == ToCounts(target_az)
      tgt_cnt_y == ToCounts(target_el)
      sa == _send_absolute_counts(m, tgt_cnt_x, tgt_cnt_y, wait)
      \* relative branch
      dcnt_x == ToCounts(target_az)
      dcnt_y == ToCounts(target_el)
      was_pt == m.streaming
      a == IF was_pt THEN _exit_pt(m) ELSE m
      s == _send_relative_counts(a, dcnt_x, dcnt_y, wait)
      u == IF s.rv
           THEN [s EXCEPT !.curr_az = ClipAz(s.curr_az + FromCounts(dcnt_x)),
                          !.curr_el = ClipEl(s.curr_el + FromCounts(dcnt_y))]
           ELSE s
      e == IF was_pt THEN _enter_pt(u) ELSE u
  IN  IF m.sim
      THEN IF absolute THEN SetPos(m, target_az, target_el)
           ELSE SetPos(m, ClipAz(m.curr_az + target_az), ClipEl(m.curr_el + target_el))
      ELSE IF absolute
      THEN IF tgt_cnt_x = curr_cnt_x /\ tgt_cnt_y = curr_cnt_y THEN m
           ELSE IF sa.exc THEN sa
           ELSE SetPos(sa, target_az, target_el)
      ELSE IF s.exc THEN s
           ELSE SetPos(e, e.curr_az, e.curr_el)

\* ---------------------------------------------------------- utility
stop(m) == IF m.sim THEN m ELSE Catch(_cmd(m, "ST", 0, 0))

go_home(m, wait) == move_absolute(m, 0, Deg(90), wait)

\* ------------------------------------------------------ setup / sync
\* a combined command, then the per-axis forms when it fails
Fallback(m, combined, per_x, per_y) ==
  IF m.exc THEN m
  ELSE
    LET r == _cmd(m, combined, 0, 0)
    IN  IF r.exc
        THEN Catch(_cmd(Catch(_cmd(Catch(r), per_x, 0, 0)), per_y, 0, 0))
        ELSE r

_set_params(m, assume_zero) ==
  LET a == _cmd(_cmd(_cmd(m, "AB", 0, 0), "ST", 0, 0), "WT 20", 0, 0)
      b == Fallback(a, "MO XY", "MO X", "MO Y")
      c == IF assume_zero THEN Fallback(b, "DP 0,0", "DP X=0", "DP Y=0") ELSE b
      d == Fallback(c, "SH XY", "SH X", "SH Y")
  IN  _cmd(_cmd(_cmd(d, "AC", 0, 0), "DC", 0, 0), "SP", 0, 0)

_setup_motion(m, assume_zero) == _set_params(m, assume_zero)

_sync_from_controller(m) ==
  IF m.exc THEN m
  ELSE
    LET x  == _cmd(m, "TP X", 0, 0)
        cx == IF x.exc THEN 0 ELSE x.ctl.pos_x
        y  == _cmd(Catch(x), "TP Y", 0, 0)
        cy == IF y.exc THEN 0 ELSE y.ctl.pos_y
    IN  SetPos(Catch(y), FromCounts(cx), FromCounts(cy))

\* ------------------------------------------------------ connection
\* A connection string is a sequence of words and blanks (" ").
RECURSIVE LStrip(_)
LStrip(q) == IF q # <<>> /\ Head(q) = " " THEN LStrip(Tail(q)) ELSE q

RECURSIVE RStrip(_)
RStrip(q) ==
  IF q # <<>> /\ q[Len(q)] = " " THEN RStrip(SubSeq(q, 1, Len(q) - 1)) ELSE q

Strip(q) == RStrip(LStrip(q))
Split(q) == SelectSeq(q, LAMBDA t : t # " ")
Has(vs, v) == \E i \in 1..Len(vs) : vs[i] = v

\* mutant: the candidates are not de-duplicated
Variants_nodedup(connection) ==
  LET s == Strip(connection)
      parts == Split(s)
      v1 == IF s # <<>> THEN <<s>> ELSE <<>>
  IN  IF parts # <<>>
      THEN v1 \o << <<parts[1]>>, <<parts[1], " ", "-d">> >>
      ELSE v1

\* the candidates: as provided, the address alone, the address with " -d"
Variants(connection) ==
  LET s == Strip(connection)
      parts == Split(s)
      v1 == IF s # <<>> THEN <<s>> ELSE <<>>
      ip_only == <<parts[1]>>
      v2 == IF ~Has(v1, ip_only) THEN Append(v1, ip_only) ELSE v1
      dash_d == <<parts[1], " ", "-d">>
      v3 == IF ~Has(v2, dash_d) THEN Append(v2, dash_d) ELSE v2
  IN  IF parts # <<>> THEN v3 ELSE v1

\* the retry loop; firstOpen is the first candidate whose GOpen succeeds
\* (0: none does).  A failed GOpen is followed by GClose.  Setting the
\* timeout and GInfo change nothing (their exceptions are swallowed).
RECURSIVE ConnLoop(_, _, _, _)
ConnLoop(m, nvariants, firstOpen, i) ==
  IF i > nvariants THEN [m EXCEPT !.exc = TRUE]
  ELSE IF i = firstOpen
  THEN [m EXCEPT !.tr = Append(@, Ev("GOpen", i, 0, TRUE)), !.handle = "open"]
  ELSE ConnLoop([m EXCEPT !.tr = @ \o <<Ev("GOpen", i, 0, FALSE),
                                        Ev("GClose", 0, 0, TRUE)>>],
                nvariants, firstOpen, i + 1)

\* _safe_load_pos
_safe_load_pos(file) == IF file = "none" THEN <<0, 0, 0>> ELSE file

__init__(m, connection, firstOpen, assume_zero) ==
  LET m0 == [m EXCEPT !.curr_az = 0, !.curr_el = 0,
                      !.curr_pos = _safe_load_pos(m.saved)]
      c  == ConnLoop(m0, Len(Variants(connection)), firstOpen, 1)
      s  == _setup_motion(c, assume_zero)
      e  == IF s.streaming THEN _enter_pt(s) ELSE s
  IN  IF m.sim THEN m0 ELSE _sync_from_controller(e)

\* _safe_save_pos: the write may fail, which is only logged
_safe_save_pos(m, saveOK) ==
  [m EXCEPT !.tr = Append(@, Ev("save", 0, 0, saveOK)),
            !.saved = IF saveOK THEN m.curr_pos ELSE @]

\* close() with the try around its first ST left out
close_abort(m, closeOK, saveOK) ==
  LET a == _cmd(m, "ST", 0, 0)
      b == IF a.streaming THEN _exit_pt(a) ELSE a
      c == [b EXCEPT !.tr = Append(@, Ev("GClose", 0, 0, closeOK)),
                     !.handle = IF closeOK THEN "closed" ELSE @,
                     !.hist.releases = IF closeOK THEN @ + 1 ELSE @]
      d == IF m.sim THEN m ELSE c
  IN  _safe_save_pos(d, saveOK)

\* GClose may raise (closeOK false), which is swallowed; the session is
\* released when it returns.
close(m, closeOK, saveOK) ==
  LET a == Catch(_cmd(m, "ST", 0, 0))
      b == IF a.streaming THEN _exit_pt(a) ELSE a
      c == [b EXCEPT !.tr = Append(@, Ev("GClose", 0, 0, closeOK)),
                     !.handle = IF closeOK THEN "closed" ELSE @,
                     !.hist.releases = IF closeOK THEN @ + 1 ELSE @]
      d == IF m.sim THEN m ELSE c
  IN  _safe_save_pos(d, saveOK)

\* ------------------------------------------------------------ inputs
RECURSIVE KSubsets(_, _)
KSubsets(N, k) ==
  IF k = 0 THEN {{}}
  ELSE LET P == KSubsets(N, k - 1)
       IN  P \cup {S \cup {i} : S \in P, i \in 1..N}

\* failure choices left to this call: at most MaxFaults per session
FaultSets(N) == KSubsets(N, MaxFaults - faults)

Connections ==
  { <<>>, <<"ip">>, <<"ip", " ", "-d">>, <<"ip", " ", "-x">>,
    <<" ", "ip", " ", " ", "-d">> }

\* where the axes stand when the session starts (counts)
HwPositions == { <<300, -4>> }

\* angles given to the movement calls (units), azimuth and elevation
Angles ==
  { <<Cnt(4), 0>>, <<Cnt(15) + 5, Cnt(-9)>>, <<Deg(95), Deg(-95)>> }

WaitModes == {0} \cup (1..(MaxPolls + 1))

\* ----------------------------------------------------------- actions
Work(F, readyAt) ==
  [sim |-> sim, streaming |-> streaming, curr_az |-> curr_az, curr_el |-> curr_el,
   curr_pos |-> curr_pos, handle |-> handle, saved |-> saved, ctl |-> ctl,
   hist |-> hist, tr |-> <<>>, n |-> 0, F |-> F, readyAt |-> readyAt,
   exc |-> FALSE, rv |-> FALSE, waitRes |-> "none"]

CallRec(op, az, el, absolute, wait) ==
  [op |-> op, az |-> az, el |-> el, absolute |-> absolute, wait |-> wait,
   streaming |-> streaming, curr_az |-> curr_az, curr_el |-> curr_el,
   curr_pos |-> curr_pos, ctl |-> ctl, hist |-> hist, waitRes |-> "none",
   readyAt |-> 0, connection |-> <<>>, firstOpen |-> 0]

\* the handler ran to its end r, having met every failure chosen for it
Commit(r, c) ==
  /\ r.F \subseteq 1..r.n
  /\ sim' = r.sim
  /\ streaming' = r.streaming
  /\ curr_az' = r.curr_az
  /\ curr_el' = r.curr_el
  /\ curr_pos' = r.curr_pos
  /\ handle' = r.handle
  /\ saved' = r.saved
  /\ ctl' = r.ctl
  /\ tr' = r.tr
  /\ call' = [c EXCEPT !.waitRes = r.waitRes, !.readyAt = r.readyAt]
  /\ ret' = IF r.exc THEN "raise" ELSE "ok"
  /\ hist' = [r.hist EXCEPT !.lastAbs =
                IF c.op = "move_absolute" /\ ~r.exc THEN <<c.az, c.el>> ELSE <<>>]
  /\ faults' = faults + Cardinality(r.F)

Construct ==
  /\ phase = "new"
  /\ \E F \in FaultSets(15 + 4) :
     \E connection \in Connections, firstOpen \in 0..3, hw \in HwPositions :
     \E st \in BOOLEAN, assume_zero \in BOOLEAN, gclibMissing \in BOOLEAN :
       LET m == [Work(F, 1) EXCEPT !.sim = gclibMissing, !.streaming = st,
                   !.ctl = [Ctl0 EXCEPT !.pos_x = hw[1], !.pos_y = hw[2],
                                         !.cmd_x = hw[1], !.cmd_y = hw[2]]]
           r == __init__(m, connection, firstOpen, assume_zero)
       IN  /\ firstOpen <= Len(Variants(connection))
           /\ gclibMissing => (connection = <<"ip">> /\ firstOpen = 1 /\ assume_zero)
           /\ Commit(r, [CallRec("__init__", 0, 0, assume_zero, FALSE) EXCEPT
                           !.connection = connection, !.firstOpen = firstOpen,
                           !.streaming = st, !.ctl = m.ctl])
           /\ phase' = IF r.exc THEN "failed" ELSE "returned"
           /\ ncalls' = 0

CanCall == phase = "ready" /\ ncalls < MaxCalls

\* the longest movement handler: two exits, PR, BG, the polls, two entries
MoveCmds == 10 + 2 * MaxPolls

Called(r, c) ==
  /\ Commit(r, c)
  /\ ncalls' = ncalls + 1
  /\ phase' = "returned"

MoveAbsolute ==
  /\ CanCall
  /\ \E F \in FaultSets(MoveCmds) : \E a \in Angles, w \in WaitModes :
       Called(move_absolute(Work(F, w), a[1], a[2] + Deg(90), w > 0),
              CallRec("move_absolute", a[1], a[2] + Deg(90), TRUE, w > 0))

MoveRelative ==
  /\ CanCall
  /\ \E F \in FaultSets(MoveCmds) : \E a \in Angles, w \in WaitModes :
       Called(move_relative(Work(F, w), a[1], a[2], w > 0),
              CallRec("move_relative", a[1], a[2], FALSE, w > 0))

DegSteer ==
  /\ CanCall
  /\ \E F \in FaultSets(MoveCmds) :
     \E a \in Angles, w \in WaitModes, absolute \in BOOLEAN :
       Called(degSteer(Work(F, w), a[1], a[2], absolute, w > 0),
              CallRec("degSteer", a[1], a[2], absolute, w > 0))

GoHome ==
  /\ CanCall
  /\ \E F \in FaultSets(MoveCmds) : \E w \in WaitModes :
       Called(go_home(Work(F, w), w > 0),
              CallRec("go_home", 0, Deg(90), TRUE, w > 0))

Stop ==
  /\ CanCall
  /\ \E F \in FaultSets(1) :
       Called(stop(Work(F, 1)), CallRec("stop", 0, 0, FALSE, FALSE))

\* close() may be called again on a closed controller
Close ==
  /\ phase \in {"ready", "closed"}
  /\ ncalls < MaxCalls
  /\ \E F \in FaultSets(3) : \E closeOK \in BOOLEAN, saveOK \in BOOLEAN :
       /\ Commit(close(Work(F, 1), closeOK, saveOK),
                 CallRec("close", 0, 0, FALSE, FALSE))
       /\ ncalls' = ncalls + 1
       /\ phase' = "closed"

\* Control is back with the caller: the next call starts a new I/O log.
Return ==
  /\ phase = "returned"
  /\ phase' = "ready"
  /\ tr' = <<>>
  /\ call' = [op |-> "none"]
  /\ ret' = "ok"
  /\ UNCHANGED <<sim, streaming, curr_az, curr_el, curr_pos, handle, saved, ctl,
                 hist, ncalls, faults>>

Init ==
  /\ phase = "new"
  /\ sim = FALSE
  /\ streaming = FALSE
  /\ curr_az = 0
  /\ curr_el = 0
  /\ curr_pos = <<0, 0, 0>>
  /\ handle = "none"
  /\ saved = "none"
  /\ ctl = Ctl0
  /\ hist = Hist0
  /\ tr = <<>>
  /\ call = [op |-> "none"]
  /\ ret = "ok"
  /\ ncalls = 0
  /\ faults = 0

Next ==
  \/ Construct
  \/ MoveAbsolute
  \/ MoveRelative
  \/ DegSteer
  \/ GoHome
  \/ Stop
  \/ Close
  \/ Return

Spec == Init /\ [][Next]_vars

\* =================================================================
\* Properties
\* =================================================================
Names(t) == [i \in 1..Len(t) |-> t[i].c]
AllOk(t) == \A i \in 1..Len(t) : t[i].ok
Sent(c) == \E i \in 1..Len(tr) : tr[i].c = c
Ended(op) == phase \in {"returned", "failed", "closed"} /\ call.op = op
Polls(k) == [i \in 1..k |-> "MG _TNX,_TNY"]

\* the counts a target in units converts to, before the call and asked for
PreCntX == ToCounts(call.curr_az)
PreCntY == ToCounts(call.curr_el)

InLimits(c0) ==
  /\ AZ_MIN * CNT_PER_DEG_AZ <= c0.cmd_x /\ c0.cmd_x <= AZ_MAX * CNT_PER_DEG_AZ
  /\ EL_MIN * CNT_PER_DEG_EL <= c0.cmd_y /\ c0.cmd_y <= EL_MAX * CNT_PER_DEG_EL

\* C1: a move_absolute made while streaming is active, to counts other than
\* the current ones, with every command accepted, sends PA, then BG XY, and
\* only then re-enables streaming with PT 1,1.
C1_AbsoluteMoveRuns ==
  ( /\ Ended("move_absolute") /\ ~sim /\ call.streaming /\ AllOk(tr)
    /\ ( ToCounts(ClipAz(call.az)) # PreCntX
         \/ ToCounts(ClipEl(call.el - Deg(90))) # PreCntY ) )
  => \E i, j, k \in 1..Len(tr) :
        /\ i < j /\ j < k
        /\ tr[i].c = "PA" /\ tr[j].c = "BG XY" /\ tr[k].c = "PT 1,1"

\* C2: in a session without failed commands, the position commanded to the
\* controller (last PA target, or previous commanded position plus the PR
\* delta) stays within the travel limits on both axes.
C2_TravelLimits == ~hist.anyFail => InLimits(ctl)

\* C3: a move_relative made while streaming is active, with a delta at or
\* above the deadband on some axis and every command accepted, sends exactly
\* ST, PT 0,0, PR x,y, BG XY, the in-position polls (when waiting), ST,
\* PT 1,1, and leaves the streaming flag as it was; and whatever fails, no
\* PT 0,0 is sent after the PR, no PT 1,1 before the BG XY, and the flag
\* changes only when a command of the re-entry (ST, PT 1,1) failed.
C3_RelativeMoveOrder ==
  (Ended("move_relative") /\ ~sim /\ call.streaming) =>
    LET new_az == ClipAz(call.curr_az + call.az)
        new_el == ClipEl(call.curr_el + call.el)
        dx == ToCounts(new_az - call.curr_az)
        dy == ToCounts(new_el - call.curr_el)
        moving == Abs(dx) >= 10 \/ Abs(dy) >= 10
    IN  /\ (moving /\ AllOk(tr)) =>
             /\ ret = "ok"
             /\ streaming = call.streaming
             /\ \E k \in 0..MaxPolls :
                  /\ (k = 0) <=> ~call.wait
                  /\ Names(tr) = <<"ST", "PT 0,0", "PR", "BG XY">> \o Polls(k)
                                   \o <<"ST", "PT 1,1">>
             /\ tr[3].x = (IF Abs(dx) >= 10 THEN dx ELSE 0)
             /\ tr[3].y = (IF Abs(dy) >= 10 THEN dy ELSE 0)
        /\ \A i, j \in 1..Len(tr) :
             /\ (tr[i].c = "PT 0,0" /\ tr[j].c \in {"PR", "BG XY"}) => i < j
             /\ (tr[i].c = "PT 1,1" /\ tr[j].c \in {"PR", "BG XY"}) => j < i
        /\ \/ streaming = call.streaming
           \/ \E i, j \in 1..Len(tr) :
                /\ tr[i].c = "BG XY" /\ i < j
                /\ tr[j].c \in {"ST", "PT 1,1"} /\ ~tr[j].ok

C3_Witness ==
  /\ Ended("move_relative") /\ ~sim /\ call.streaming /\ call.wait
  /\ AllOk(tr) /\ Sent("BG XY") /\ Sent("MG _TNX,_TNY")

\* C4: in a session in which no protocol command has failed, BG XY is never
\* sent while position tracking is enabled on the controller.
C4_NoRunWhileTracking == ~hist.anyFail => ~hist.bgInPT

C4_Witness ==
  /\ phase = "returned" /\ ~hist.anyFail /\ call.op # "__init__"
  /\ call.ctl.pt /\ ctl.pt /\ Sent("BG XY")

\* C5: once an attempt to enter streaming has failed, the mode is Classic
\* from then on and no PT 1,1 is sent any more.
C5_FallbackPermanent ==
  hist.enterFailed => (~streaming /\ ~hist.ptAfterFail)

\* C6: a move_absolute that follows at once a move_absolute with the same
\* azimuth and sky elevation that returned normally sends nothing and leaves
\* the tracked state and the mode unchanged.
C6_RepeatedAbsoluteIsNoOp ==
  (Ended("move_absolute") /\ call.hist.lastAbs = <<call.az, call.el>>) =>
    /\ tr = <<>>
    /\ ret = "ok"
    /\ curr_az = call.curr_az /\ curr_el = call.curr_el
    /\ curr_pos = call.curr_pos
    /\ streaming = call.streaming
    /\ ctl = call.ctl

C6_Witness ==
  /\ Ended("move_absolute") /\ call.hist.lastAbs = <<call.az, call.el>>
  /\ ~sim /\ streaming /\ curr_az = Deg(AZ_MAX)

\* C7: a move_relative on a connected controller whose clipped delta is
\* below 10 counts on both axes sends no command at all and leaves azimuth,
\* elevation and mode unchanged.
C7_DeadbandNoOp ==
  (Ended("move_relative") /\ ~sim) =>
    LET new_az == ClipAz(call.curr_az + call.az)
        new_el == ClipEl(call.curr_el + call.el)
        dx == ToCounts(new_az - call.curr_az)
        dy == ToCounts(new_el - call.curr_el)
    IN  (Abs(dx) < 10 /\ Abs(dy) < 10) =>
          /\ tr = <<>>
          /\ ret = "ok"
          /\ curr_az = call.curr_az /\ curr_el = call.curr_el
          /\ curr_pos = call.curr_pos
          /\ streaming = call.streaming

C7_Witness ==
  /\ Ended("move_relative") /\ ~sim /\ call.streaming /\ call.ctl.pt
  /\ call.az = Cnt(4) /\ call.curr_az < Deg(AZ_MAX) /\ tr = <<>>

\* C8: degSteer(absolute=true) in streaming mode, with target counts other
\* than the tracked ones but less than 6 counts from the controller's
\* position on both axes, and with its queries answered, sends neither PA
\* nor BG XY, and still sets the tracked angles to the clipped target.
C8_SmallUpdateSuppressed ==
  (Ended("degSteer") /\ call.absolute /\ ~sim /\ call.streaming /\ AllOk(tr)) =>
    LET tx == ToCounts(ClipAz(call.az))
        ty == ToCounts(ClipEl(call.el))
    IN  ( /\ (tx # PreCntX \/ ty # PreCntY)
          /\ Abs(tx - call.ctl.pos_x) < 6 /\ Abs(ty - call.ctl.pos_y) < 6 )
        => /\ ~Sent("PA") /\ ~Sent("BG XY")
           /\ ret = "ok"
           /\ curr_az = ClipAz(call.az) /\ curr_el = ClipEl(call.el)

C8_Witness ==
  /\ Ended("degSteer") /\ call.absolute /\ ~sim /\ call.streaming /\ AllOk(tr)
  /\ ToCounts(ClipAz(call.az)) # PreCntX
  /\ Abs(ToCounts(ClipAz(call.az)) - call.ctl.pos_x) < 6
  /\ Abs(ToCounts(ClipEl(call.el)) - call.ctl.pos_y) < 6
  /\ Names(tr) = <<"TP X", "TP Y">>
  /\ curr_az # call.curr_az

\* C9: once a connection candidate has opened, construction does not raise,
\* whichever bring-up commands fail.
C9_SetupNeverRaises ==
  (Ended("__init__") /\ ~sim /\ call.firstOpen >= 1) => ret = "ok"

\* C10: the connection phase tries the de-duplicated candidates (as given,
\* address alone, address with " -d") in that order, each at most once,
\* closes the handle after every failed open, opens nothing after the first
\* success and raises only when every candidate failed; with the bring-up
\* commands accepted, construction then succeeds on the candidate that opened.
RECURSIVE Dedup(_, _)
Dedup(q, acc) ==
  IF q = <<>> THEN acc
  ELSE IF Head(q) = <<>> \/ (\E i \in 1..Len(acc) : acc[i] = Head(q))
       THEN Dedup(Tail(q), acc)
       ELSE Dedup(Tail(q), Append(acc, Head(q)))

Expected(connection) ==
  LET s == Strip(connection)
      w == Split(s)
  IN  IF w = <<>> THEN <<>>
      ELSE Dedup(<<s, <<w[1]>>, <<w[1], " ", "-d">>>>, <<>>)

IsOpen(e) == e.c = "GOpen"
IsProto(e) == e.c \notin {"GOpen", "GClose", "save"}

C10_ConnectionRetry ==
  (Ended("__init__") /\ ~sim) =>
    LET v == Variants(call.connection)
        k == call.firstOpen
        opens == SelectSeq(tr, IsOpen)
        last == IF k = 0 THEN Len(v) ELSE k
    IN  /\ v = Expected(call.connection)
        /\ \A i, j \in 1..Len(v) : v[i] = v[j] => i = j
        /\ Len(opens) = last
        /\ \A i \in 1..Len(opens) : opens[i].x = i /\ (opens[i].ok <=> i = k)
        /\ \A i \in 1..Len(tr) :
             (IsOpen(tr[i]) /\ ~tr[i].ok) =>
               (i < Len(tr) /\ tr[i + 1].c = "GClose")
        /\ (k = 0) => ( /\ ret = "raise" /\ handle = "none"
                        /\ \A i \in 1..Len(tr) : ~IsProto(tr[i]) )
        /\ (k >= 1) => ( /\ handle = "open"
                         /\ AllOk(SelectSeq(tr, IsProto)) => ret = "ok" )

C10_Witness ==
  /\ Ended("__init__") /\ ~sim /\ call.firstOpen = 3
  /\ Len(SelectSeq(tr, IsOpen)) = 3 /\ ret = "ok" /\ handle = "open"

NotTC(e) == e.c # "TC"
\* the calls of the last handler, without the TC diagnostics of _cmd
Steps == SelectSeq(tr, NotTC)

\* C11 as stated: close() on a connected controller never raises and always
\* performs, in order, the stop (ST), the streaming exit (ST, then PT 0,0
\* unless that ST failed), the handle close and the position flush.
C11_AllFourSteps ==
  (Ended("close") /\ ~sim) =>
    /\ ret = "ok"
    /\ Len(Steps) >= 4
    /\ Names(Steps) = <<"ST", "ST">>
                        \o (IF Steps[2].ok THEN <<"PT 0,0">> ELSE <<>>)
                        \o <<"GClose", "save">>

\* C11 amended: close() on a connected controller never raises and always
\* sends the stop ST, then closes the handle, then flushes the tracked
\* position, each attempted whatever failed before; the streaming exit comes
\* between the stop and the handle close only when the streaming flag is set
\* (ST, then PT 0,0 unless that ST failed), and a successful flush stores
\* the tracked position.
C11_ShutdownSteps ==
  (Ended("close") /\ ~sim) =>
    /\ ret = "ok"
    /\ Len(Steps) >= 3
    /\ Names(Steps) = <<"ST">>
                        \o (IF ~call.streaming THEN <<>>
                            ELSE IF Steps[2].ok THEN <<"ST", "PT 0,0">>
                            ELSE <<"ST">>)
                        \o <<"GClose", "save">>
    /\ Steps[Len(Steps)].ok => saved = curr_pos

C11_Witness ==
  /\ Ended("close") /\ ~sim /\ call.streaming
  /\ ~tr[1].ok
  /\ Names(Steps) = <<"ST", "ST", "PT 0,0", "GClose", "save">>
  /\ ~Steps[4].ok /\ Steps[5].ok
  /\ saved = curr_pos

MoveOps == {"move_absolute", "move_relative", "degSteer", "go_home"}
IsMG(e) == e.c = "MG _TNX,_TNY"
IsTP(e) == e.c \in {"TP X", "TP Y"}
IsPoll(i) ==
  \/ IsMG(tr[i])
  \/ IsTP(tr[i]) /\ \E j \in 1..(i - 1) : tr[j].c = "PA"

\* the TP queries of the settle wait: those sent after the PA
SettlePolls ==
  IF ~Sent("PA") THEN <<>>
  ELSE LET p == CHOOSE i \in 1..Len(Steps) : Steps[i].c = "PA"
       IN  SelectSeq(SubSeq(Steps, p + 1, Len(Steps)), IsTP)

IsMotion(e) == e.c \in {"PA", "PR", "BG XY"}

\* The angles a movement call aims at, from its arguments and the angles
\* tracked before it: the clipped absolute target, or the clipped sum of the
\* tracked angle and the delta (for a relative degSteer the delta in whole
\* counts).
TargetAz ==
  CASE call.op = "move_absolute" -> ClipAz(call.az)
    [] call.op = "go_home" -> ClipAz(0)
    [] call.op = "move_relative" -> ClipAz(call.curr_az + call.az)
    [] call.op = "degSteer" /\ call.absolute -> ClipAz(call.az)
    [] call.op = "degSteer" /\ ~call.absolute ->
         ClipAz(call.curr_az + FromCounts(ToCounts(ClipAz(call.az))))

TargetEl ==
  CASE call.op = "move_absolute" -> ClipEl(call.el - Deg(90))
    [] call.op = "go_home" -> ClipEl(Deg(90) - Deg(90))
    [] call.op = "move_relative" -> ClipEl(call.curr_el + call.el)
    [] call.op = "degSteer" /\ call.absolute -> ClipEl(call.el)
    [] call.op = "degSteer" /\ ~call.absolute ->
         ClipEl(call.curr_el + FromCounts(ToCounts(ClipEl(call.el))))

AtTarget ==
  /\ curr_az = TargetAz
  /\ curr_el = TargetEl
  /\ curr_pos = <<TargetAz, TargetEl, 0>>

\* C13: a movement call with wait=true on a connected controller whose
\* motion commands (PA, PR, BG XY) were all accepted and whose completion
\* poll timed out returns normally, with the tracked azimuth, elevation and
\* persisted vector at the clipped target, as when the poll succeeds.
C13_OptimisticUpdate ==
  (/\ phase = "returned" /\ ~sim /\ call.op \in MoveOps /\ call.wait
   /\ \E i \in 1..Len(tr) : IsMotion(tr[i])
   /\ \A i \in 1..Len(tr) : IsMotion(tr[i]) => tr[i].ok
   /\ call.waitRes = "false")
    => (ret = "ok" /\ AtTarget)

C13_Witness ==
  /\ phase = "returned" /\ ~sim /\ call.op = "move_absolute" /\ call.wait
  /\ ~call.streaming
  /\ Names(tr) = <<"PA", "BG XY">> \o Polls(MaxPolls)
  /\ AllOk(tr)
  /\ call.waitRes = "false"
  /\ ret = "ok"
  /\ curr_az = ClipAz(call.az) /\ curr_az # call.curr_az

\* the angles a movement call aims at in simulation
SimTargetAz ==
  IF call.op = "degSteer" /\ ~call.absolute
  THEN ClipAz(call.curr_az + ClipAz(call.az))
  ELSE TargetAz

SimTargetEl ==
  IF call.op = "degSteer" /\ ~call.absolute
  THEN ClipEl(call.curr_el + ClipEl(call.el))
  ELSE TargetEl

\* C14: in simulation every call of move_absolute, move_relative, degSteer,
\* go_home, stop and close sends no protocol command, touches no handle and
\* performs no wait; each movement call sets the tracked azimuth, elevation
\* and persisted vector to the clipped target whatever the size of the
\* move; stop and close leave them alone.
C14_SimulationIsPure ==
  (sim /\ phase \in {"returned", "closed"} /\ call.op # "__init__") =>
    /\ SelectSeq(tr, IsProto) = <<>>
    /\ ~Sent("GClose")
    /\ call.waitRes = "none"
    /\ ret = "ok"
    /\ call.op \in MoveOps =>
         /\ curr_az = SimTargetAz
         /\ curr_el = SimTargetEl
         /\ curr_pos = <<SimTargetAz, SimTargetEl, 0>>
    /\ call.op \in {"stop", "close"} =>
         /\ curr_az = call.curr_az
         /\ curr_el = call.curr_el
         /\ curr_pos = call.curr_pos

\* a relative move below the deadband on both axes is taken over
C14_Witness ==
  /\ sim /\ phase = "returned" /\ call.op = "move_relative"
  /\ call.az # 0 /\ Abs(ToCounts(call.az)) < MIN_PR_COUNTS
  /\ Abs(ToCounts(call.el)) < MIN_PR_COUNTS
  /\ curr_az = call.curr_az + call.az
  /\ tr = <<>>

\* C15: every handle that was opened is released exactly once: a session
\* that has ended (construction aborted, or close() returned) holds no open
\* handle, the handle is never released more than once, also when close()
\* is called again, and no protocol command is sent on a released handle.
C15_ReleasedExactlyOnce ==
  /\ phase \in {"failed", "closed"} => handle # "open"
  /\ hist.releases <= 1
  /\ ~hist.afterRelease

\* C16: a degSteer(absolute=false) made while streaming is active, with a
\* delta at or above the deadband and every command accepted, sends exactly
\* one exit (ST, PT 0,0) before PR and BG XY and exactly one re-entry
\* (ST, PT 1,1) after them.
C16_SingleExitAndReenter ==
  (/\ phase = "returned" /\ ~sim /\ call.op = "degSteer" /\ ~call.absolute
   /\ call.streaming /\ AllOk(tr) /\ Sent("BG XY"))
    => \E k \in 0..MaxPolls :
         Names(tr) = <<"ST", "PT 0,0", "PR", "BG XY">> \o Polls(k)
                       \o <<"ST", "PT 1,1">>

\* C17: when a motion command (PA, PR or BG XY) fails during move_absolute,
\* go_home, move_relative or degSteer, the call raises and the tracked
\* azimuth, elevation and persisted vector keep the values they had before
\* the call.
C17_NoUpdateOnMotionFailure ==
  (/\ phase = "returned" /\ ~sim /\ call.op \in MoveOps
   /\ \E i \in 1..Len(tr) : IsMotion(tr[i]) /\ ~tr[i].ok)
    => /\ ret = "raise"
       /\ curr_az = call.curr_az
       /\ curr_el = call.curr_el
       /\ curr_pos = call.curr_pos

C17_Witness ==
  /\ phase = "returned" /\ ~sim /\ call.op = "move_absolute"
  /\ Len(tr) >= 2 /\ tr[1].c = "PA" /\ tr[1].ok
  /\ tr[2].c = "BG XY" /\ ~tr[2].ok
  /\ ret = "raise"
  /\ curr_pos = call.curr_pos

\* C18: whenever control is back with the caller after construction or after
\* a public call on a connected controller that is not closed, returned or
\* raised, whatever commands failed, the streaming flag is true exactly when
\* position tracking is enabled on the controller (the last PT accepted was
\* PT 1,1).
C18_FlagMatchesController ==
  (phase \in {"returned", "ready"} /\ ~sim) => (streaming <=> ctl.pt)

IsPR(e) == e.c = "PR"

\* C19: after the first move_relative call on a connected Classic-mode
\* controller, with every command of the session accepted, the tracked
\* position in counts is, on each axis, the count before the call plus the
\* PR delta sent for that axis (nothing when no PR was sent); an axis whose
\* delta is sent as 0 keeps its tracked count.
C19_TrackedFollowsCommanded ==
  (/\ phase = "returned" /\ ~sim /\ call.op = "move_relative" /\ ncalls = 1
   /\ ~call.streaming /\ ~hist.anyFail)
    => LET pr == SelectSeq(tr, IsPR)
           sent_x == IF pr = <<>> THEN 0 ELSE pr[1].x
           sent_y == IF pr = <<>> THEN 0 ELSE pr[1].y
       IN  /\ ToCounts(curr_az) = PreCntX + sent_x
           /\ ToCounts(curr_el) = PreCntY + sent_y

\* C20: in a move_relative or degSteer(absolute=false) call made while
\* streaming is active, the command sent directly after an accepted BG XY
\* is never the ST of the re-entry: an in-position poll comes between them,
\* with wait=true and with wait=false.
C20_PollBeforeReenter ==
  (/\ phase = "returned" /\ ~sim /\ call.streaming
   /\ \/ call.op = "move_relative"
      \/ call.op = "degSteer" /\ ~call.absolute)
    => \A i \in 1..(Len(tr) - 1) :
         (tr[i].c = "BG XY" /\ tr[i].ok) => tr[i + 1].c # "ST"

====
